---- MODULE Spec2Model ----
(***************************************************************************)
(* Model of the debt payoff simulator of BudgetBuddy                       *)
(* (src/utils/debt_strategies.py): calculate_debt_payoff and its two       *)
(* entry points debt_snowball and debt_avalanche.                          *)
(*                                                                         *)
(* Python objects are modelled by a heap: a debt dictionary is an object   *)
(* id, heap[id] is its contents, and a list of debts is a sequence of ids. *)
(* So a copy of a list (sorted(), list.copy()) shares the dictionaries,    *)
(* and only deepcopy allocates new ones, as in the interpreter.            *)
(*                                                                         *)
(* Amounts are whole currency units and annual rates are whole multiples   *)
(* of MonthsPerYear, so that balance * (rate / 12) is exact, in the model  *)
(* as in the floating-point arithmetic of the source.                     *)
(***************************************************************************)
EXTENDS Integers, Sequences, FiniteSets

\* ---------------------------------------------------------------- bounds
\* names of the debts of the input list, in input order (at most this many)
DebtNames == <<"A", "B">>
\* largest input balance
MaxBal == 2
\* largest input minimum payment
MaxPay == 3
\* largest input extra payment
MaxExtra == 3
\* largest input monthly rate (annual rate / 12), in whole units
MaxMonthlyRate == 1
\* the simulation is followed for at most this many months
MaxMonth == MaxBal + 3

\* the 12 of "rate / 12"
MonthsPerYear == 12

Balances == -1 .. MaxBal
Payments == -1 .. MaxPay
Rates    == {r * MonthsPerYear : r \in -1 .. MaxMonthlyRate}
Extras   == -1 .. MaxExtra

VARIABLES
  heap,                \* object id -> debt dictionary
  debts,               \* the caller's list (argument debts)
  extra_payment,       \* argument extra_payment
  sort_key,            \* argument sort_key: "balance" or "neg_rate"
  pc,                  \* "start", "loop" (at the while test), "returned"
  sorted_debts,        \* local sorted_debts
  remaining_debts,     \* local remaining_debts
  total_interest_paid, \* local total_interest_paid
  month,               \* local month
  payoff_schedule,     \* local payoff_schedule
  month_balances,      \* month_balances of the latest iteration
  extra_available,     \* extra_available at the end of the latest iteration
  paid_this_month,     \* paid_this_month of the latest iteration
  pool,                \* extra_available when line 77 tested it, latest iteration
  result               \* <<>> or <<the returned plan>>

vars == <<heap, debts, extra_payment, sort_key, pc, sorted_debts,
          remaining_debts, total_interest_paid, month, payoff_schedule,
          month_balances, extra_available, paid_this_month, pool, result>>

\* ------------------------------------------------------------- helpers
Range(s) == {s[i] : i \in 1 .. Len(s)}

Front(s) == SubSeq(s, 1, Len(s) - 1)

\* the dictionaries a list of ids refers to, as values
Deref(h, ids) == [i \in 1 .. Len(ids) |-> h[ids[i]]]

\* d[k] = v on a dictionary modelled as a function
DictSet(d, k, v) ==
  [x \in DOMAIN d \cup {k} |-> IF x = k THEN v ELSE d[x]]

\* the avalanche key without its sign: lowest rate first
SortKey_RateAscending(k, x) == IF k = "balance" THEN x.balance ELSE x.rate

\* lambda x: x["balance"]  and  lambda x: -x["rate"]
SortKey(k, x) == IF k = "balance" THEN x.balance ELSE 0 - x.rate

\* sorted(): stable, ascending by key
InsertSorted(h, k, s, o) ==
  LET p == Cardinality({i \in 1 .. Len(s) :
                          SortKey(k, h[s[i]]) <= SortKey(k, h[o])})
  IN  SubSeq(s, 1, p) \o <<o>> \o SubSeq(s, p + 1, Len(s))

RECURSIVE Sorted(_, _, _)
Sorted(h, k, ids) ==
  IF ids = <<>> THEN <<>>
  ELSE InsertSorted(h, k, Sorted(h, k, Front(ids)), ids[Len(ids)])

\* a copy that shares the caller's dictionaries (debts.copy() for deepcopy)
DeepCopy_Shallow(h, ids) == [heap |-> h, list |-> ids]

\* deepcopy(debts): a new list of new dictionaries with the same contents
DeepCopy(h, ids) ==
  LET base == Cardinality(DOMAIN h)
      new  == (base + 1) .. (base + Len(ids))
  IN  [heap |-> [o \in DOMAIN h \cup new |->
                   IF o \in DOMAIN h THEN h[o] ELSE h[ids[o - base]]],
       list |-> [i \in 1 .. Len(ids) |-> base + i]]

\* the annual rate taken for the monthly one (the / 12 missing)
MonthlyInterest_Annual(debt) == debt.balance * debt.rate

\* debt["balance"] * (debt["rate"] / 12)
MonthlyInterest(debt) == debt.balance * (debt.rate \div MonthsPerYear)

\* the for loop body without the regular payment of line 67
MinimumPayment_NoPayment(st, o) ==
  LET debt     == st.heap[o]
      interest == MonthlyInterest(debt)
      inflated == debt.balance + interest
      closes   == inflated <= debt.payment
      newbal   == IF closes THEN 0 ELSE inflated
  IN  [heap  |-> [st.heap EXCEPT ![o].balance = newbal],
       tip   |-> st.tip + interest,
       extra |-> IF closes THEN st.extra + (debt.payment - inflated)
                 ELSE st.extra,
       paid  |-> IF closes THEN Append(st.paid, o) ELSE st.paid,
       mb    |-> DictSet(st.mb, debt.name, newbal)]

\* the for loop body with line 54 moved into the else branch: the interest of
\* a debt's closing month is not added to the total
MinimumPayment_InterestUncounted(st, o) ==
  LET debt     == st.heap[o]
      interest == MonthlyInterest(debt)
      inflated == debt.balance + interest
      closes   == inflated <= debt.payment
      newbal   == IF closes THEN 0 ELSE inflated - debt.payment
  IN  [heap  |-> [st.heap EXCEPT ![o].balance = newbal],
       tip   |-> IF closes THEN st.tip ELSE st.tip + interest,
       extra |-> IF closes THEN st.extra + (debt.payment - inflated)
                 ELSE st.extra,
       paid  |-> IF closes THEN Append(st.paid, o) ELSE st.paid,
       mb    |-> DictSet(st.mb, debt.name, newbal)]

\* the for loop body with < for the <= of line 60
MinimumPayment_StrictTest(st, o) ==
  LET debt     == st.heap[o]
      interest == MonthlyInterest(debt)
      inflated == debt.balance + interest
      closes   == inflated < debt.payment
      newbal   == IF closes THEN 0 ELSE inflated - debt.payment
  IN  [heap  |-> [st.heap EXCEPT ![o].balance = newbal],
       tip   |-> st.tip + interest,
       extra |-> IF closes THEN st.extra + (debt.payment - inflated)
                 ELSE st.extra,
       paid  |-> IF closes THEN Append(st.paid, o) ELSE st.paid,
       mb    |-> DictSet(st.mb, debt.name, newbal)]

\* the for loop body without line 62: what a closing payment leaves over is
\* not added to the pool
MinimumPayment_NoExcess(st, o) ==
  LET debt     == st.heap[o]
      interest == MonthlyInterest(debt)
      inflated == debt.balance + interest
      closes   == inflated <= debt.payment
      newbal   == IF closes THEN 0 ELSE inflated - debt.payment
  IN  [heap  |-> [st.heap EXCEPT ![o].balance = newbal],
       tip   |-> st.tip + interest,
       extra |-> st.extra,
       paid  |-> IF closes THEN Append(st.paid, o) ELSE st.paid,
       mb    |-> DictSet(st.mb, debt.name, newbal)]

\* one iteration of the for loop of lines 51-70 on the debt object o
MinimumPayment(st, o) ==
  LET debt     == st.heap[o]
      interest == MonthlyInterest(debt)
      inflated == debt.balance + interest
      closes   == inflated <= debt.payment
      newbal   == IF closes THEN 0 ELSE inflated - debt.payment
  IN  [heap  |-> [st.heap EXCEPT ![o].balance = newbal],
       tip   |-> st.tip + interest,
       extra |-> IF closes THEN st.extra + (debt.payment - inflated)
                 ELSE st.extra,
       paid  |-> IF closes THEN Append(st.paid, o) ELSE st.paid,
       mb    |-> DictSet(st.mb, debt.name, newbal)]

\* the for loop of lines 51-70 over rem[i..]
RECURSIVE MinimumPayments(_, _, _)
MinimumPayments(st, rem, i) ==
  IF i > Len(rem) THEN st
  ELSE MinimumPayments(MinimumPayment(st, rem[i]), rem, i + 1)

\* list.remove(x): drops the first element that is x or equals x
ListRemove(h, rem, o) ==
  LET hits == {i \in 1 .. Len(rem) : rem[i] = o \/ h[rem[i]] = h[o]}
      p    == CHOOSE i \in hits : \A j \in hits : i <= j
  IN  SubSeq(rem, 1, p - 1) \o SubSeq(rem, p + 1, Len(rem))

\* the active list is sorted again, by the current values, once the paid
\* debts are taken out
RemovePaid_Resorted(h, rem, paid, j) ==
  Sorted(h, sort_key,
         SelectSeq(rem, LAMBDA o : \A i \in j .. Len(paid) : paid[i] # o))

\* the for loop of lines 73-74 over paid[j..]
RECURSIVE RemovePaid(_, _, _, _)
RemovePaid(h, rem, paid, j) ==
  IF j > Len(paid) THEN rem
  ELSE RemovePaid(h, ListRemove(h, rem, paid[j]), paid, j + 1)

\* what is left of the pool after closing the first debt goes on to the next
RECURSIVE ApplyExtra_Cascading(_, _, _, _)
ApplyExtra_Cascading(h, rem, extra, mb) ==
  IF rem # <<>> /\ extra > 0
  THEN IF h[rem[1]].balance <= extra
       THEN ApplyExtra_Cascading([h EXCEPT ![rem[1]].balance = 0],
                                 SubSeq(rem, 2, Len(rem)),
                                 extra - h[rem[1]].balance,
                                 DictSet(mb, h[rem[1]].name, 0))
       ELSE [heap  |-> [h EXCEPT ![rem[1]].balance = @ - extra],
             extra |-> extra,
             rem   |-> rem,
             mb    |-> DictSet(mb, h[rem[1]].name,
                               h[rem[1]].balance - extra)]
  ELSE [heap |-> h, extra |-> extra, rem |-> rem, mb |-> mb]

\* the extra payment is subtracted without the test of line 79
ApplyExtra_Overpaid(h, rem, extra, mb) ==
  IF rem # <<>> /\ extra > 0
  THEN [heap  |-> [h EXCEPT ![rem[1]].balance = @ - extra],
        extra |-> extra,
        rem   |-> rem,
        mb    |-> DictSet(mb, h[rem[1]].name, h[rem[1]].balance - extra)]
  ELSE [heap |-> h, extra |-> extra, rem |-> rem, mb |-> mb]

\* the snapshot is not updated after the extra payment (lines 84, 88 missing)
ApplyExtra_NotRecorded(h, rem, extra, mb) ==
  IF rem # <<>> /\ extra > 0
  THEN IF h[rem[1]].balance <= extra
       THEN [heap  |-> [h EXCEPT ![rem[1]].balance = 0],
             extra |-> extra - h[rem[1]].balance,
             rem   |-> SubSeq(rem, 2, Len(rem)),
             mb    |-> mb]
       ELSE [heap  |-> [h EXCEPT ![rem[1]].balance = @ - extra],
             extra |-> extra,
             rem   |-> rem,
             mb    |-> mb]
  ELSE [heap |-> h, extra |-> extra, rem |-> rem, mb |-> mb]

\* line 77 without its test of extra_available > 0
ApplyExtra_PoolUntested(h, rem, extra, mb) ==
  IF rem # <<>>
  THEN IF h[rem[1]].balance <= extra
       THEN [heap  |-> [h EXCEPT ![rem[1]].balance = 0],
             extra |-> extra - h[rem[1]].balance,
             rem   |-> SubSeq(rem, 2, Len(rem)),
             mb    |-> DictSet(mb, h[rem[1]].name, 0)]
       ELSE [heap  |-> [h EXCEPT ![rem[1]].balance = @ - extra],
             extra |-> extra,
             rem   |-> rem,
             mb    |-> DictSet(mb, h[rem[1]].name,
                               h[rem[1]].balance - extra)]
  ELSE [heap |-> h, extra |-> extra, rem |-> rem, mb |-> mb]

\* lines 77-88: the extra payment goes to the first remaining debt
ApplyExtra(h, rem, extra, mb) ==
  IF rem # <<>> /\ extra > 0
  THEN LET first_debt == rem[1]
       IN  IF h[first_debt].balance <= extra
           THEN [heap  |-> [h EXCEPT ![first_debt].balance = 0],
                 extra |-> extra - h[first_debt].balance,
                 rem   |-> ListRemove([h EXCEPT ![first_debt].balance = 0],
                                      rem, first_debt),
                 mb    |-> DictSet(mb, h[first_debt].name, 0)]
           ELSE [heap  |-> [h EXCEPT ![first_debt].balance = @ - extra],
                 extra |-> extra,
                 rem   |-> rem,
                 mb    |-> DictSet(mb, h[first_debt].name,
                                   h[first_debt].balance - extra)]
  ELSE [heap |-> h, extra |-> extra, rem |-> rem, mb |-> mb]

\* an empty-list plan that counts a month
EmptyPlan_OneMonth ==
  [months_to_payoff |-> 1, total_interest_paid |-> 0,
   sorted_debts |-> <<>>, payoff_schedule |-> << <<>> >>]

\* the dictionary returned at lines 24-29
EmptyPlan ==
  [months_to_payoff |-> 0, total_interest_paid |-> 0,
   sorted_debts |-> <<>>, payoff_schedule |-> <<>>]

\* ---------------------------------------------------------------- state
InputHeaps(n) ==
  {[i \in 1 .. n |-> [name |-> DebtNames[i], balance |-> f[i][1],
                      payment |-> f[i][2], rate |-> f[i][3]]] :
     f \in [1 .. n -> Balances \X Payments \X Rates]}

Init ==
  /\ \E n \in 0 .. Len(DebtNames) :
       /\ heap \in InputHeaps(n)
       /\ debts = [i \in 1 .. n |-> i]
  /\ extra_payment \in Extras
  /\ sort_key = "none"
  /\ pc = "start"
  /\ sorted_debts = <<>>
  /\ remaining_debts = <<>>
  /\ total_interest_paid = 0
  /\ month = 0
  /\ payoff_schedule = <<>>
  /\ month_balances = <<>>
  /\ extra_available = 0
  /\ paid_this_month = <<>>
  /\ pool = 0
  /\ result = <<>>

\* lines 23-41: the empty-list return, or the copy, the sort and the locals
calculate_debt_payoff(k) ==
  /\ pc = "start"
  /\ sort_key' = k
  /\ IF debts = <<>>
     THEN /\ result' = <<EmptyPlan>>
          /\ pc' = "returned"
          /\ UNCHANGED <<heap, sorted_debts, remaining_debts>>
     ELSE LET c == DeepCopy(heap, debts)
          IN  /\ heap' = c.heap
              /\ sorted_debts' = Sorted(c.heap, k, c.list)
              /\ remaining_debts' = sorted_debts'
              /\ pc' = "loop"
              /\ result' = result
  /\ total_interest_paid' = 0
  /\ month' = 0
  /\ payoff_schedule' = <<>>
  /\ UNCHANGED <<debts, extra_payment, month_balances, extra_available,
                 paid_this_month, pool>>

\* line 116
debt_snowball == calculate_debt_payoff("balance")

\* line 134
debt_avalanche == calculate_debt_payoff("neg_rate")

\* the schedule keeps the last snapshot only
ScheduleAppend_LastOnly(schedule, mb) == <<mb>>

\* the snapshot is put in front (insert(0, ...) for append)
ScheduleAppend_InFront(schedule, mb) == <<mb>> \o schedule

\* line 91
ScheduleAppend(schedule, mb) == Append(schedule, mb)

\* lines 46-88: the body of the while loop on the active list rem0
MonthBody(h, rem0, tip, extra) ==
  LET st0 == [heap |-> h, tip |-> tip, extra |-> extra,
              paid |-> <<>>, mb |-> <<>>]
      st1 == MinimumPayments(st0, rem0, 1)
      rem == RemovePaid(st1.heap, rem0, st1.paid, 1)
  IN  [min |-> st1, rem |-> rem,
       out |-> ApplyExtra(st1.heap, rem, st1.extra, st1.mb)]

\* lines 44-91: one iteration of the while loop
SimulateMonth ==
  /\ pc = "loop"
  /\ remaining_debts # <<>>
  /\ month < MaxMonth
  /\ LET b == MonthBody(heap, remaining_debts, total_interest_paid,
                        extra_payment)
     IN  /\ month' = month + 1
         /\ heap' = b.out.heap
         /\ total_interest_paid' = b.min.tip
         /\ paid_this_month' = b.min.paid
         /\ pool' = b.min.extra
         /\ remaining_debts' = b.out.rem
         /\ extra_available' = b.out.extra
         /\ month_balances' = b.out.mb
         /\ payoff_schedule' = ScheduleAppend(payoff_schedule, b.out.mb)
  /\ UNCHANGED <<debts, extra_payment, sort_key, pc, sorted_debts, result>>

\* lines 93-98: the loop has ended
Return ==
  /\ pc = "loop"
  /\ remaining_debts = <<>>
  /\ result' = <<[months_to_payoff |-> month,
                  total_interest_paid |-> total_interest_paid,
                  sorted_debts |-> Deref(heap, sorted_debts),
                  payoff_schedule |-> payoff_schedule]>>
  /\ pc' = "returned"
  /\ UNCHANGED <<heap, debts, extra_payment, sort_key, sorted_debts,
                 remaining_debts, total_interest_paid, month,
                 payoff_schedule, month_balances, extra_available,
                 paid_this_month, pool>>

Next ==
  \/ debt_snowball
  \/ debt_avalanche
  \/ SimulateMonth
  \/ Return

Spec == Init /\ [][Next]_vars

\* the while loop takes its next iteration: SimulateMonth is enabled exactly
\* when this is, and a step of the program is a SimulateMonth step exactly
\* when it is a step of this action
LoopStep ==
  /\ pc = "loop"
  /\ remaining_debts # <<>>
  /\ month < MaxMonth
  /\ month' = month + 1

\* the interpreter runs the call to its end: the call is entered, the loop
\* takes its next iteration while a debt remains, and the function returns
FairSpec ==
  /\ Spec
  /\ WF_vars(debt_snowball \/ debt_avalanche)
  /\ WF_month(LoopStep)
  /\ WF_vars(Return)

\* ------------------------------------------------------------ properties
\* the working copy of the input object o (allocated by deepcopy)
CopyOf(o) == Len(debts) + o

\* the dictionaries of the caller's list
InputDebts == {heap[o] : o \in Range(debts)}

NonNegativeInput ==
  /\ extra_payment >= 0
  /\ \A d \in InputDebts : d.balance >= 0 /\ d.payment >= 0 /\ d.rate >= 0

InvalidInput == ~NonNegativeInput

\* C1: a call with a negative balance, minimum payment, rate or extra payment
\* is rejected: no simulated month runs and no plan is returned (the empty
\* list, for which the design defines the trivial plan, set aside).
C1_RejectsInvalidInput ==
  InvalidInput => (month = 0 /\ (debts # <<>> => result = <<>>))

\* the ceiling the design asks for, scaled to the months the model follows
IterationCeiling == MaxMonth - 1

\* non-negative inputs, no extra payment, and a debt that is never paid
PaymentsNeverOvercomeInterest ==
  /\ NonNegativeInput
  /\ extra_payment = 0
  /\ \E d \in InputDebts : d.balance > 0 /\ d.payment = 0

\* C2: when payments never overcome interest, the simulation stops at the
\* iteration ceiling and fails with a NonTerminating condition.
C2_FailsAtCeiling ==
  (PaymentsNeverOvercomeInterest /\ month >= IterationCeiling)
    => pc = "NonTerminating"

\* the month the loop is about to simulate
ComingMonth ==
  MonthBody(heap, remaining_debts, total_interest_paid, extra_payment)

\* the extra funds the coming month redirects to the debt object o
Redirected(o) ==
  LET b == ComingMonth
  IN  IF b.rem # <<>> /\ b.min.extra > 0 /\ b.rem[1] = o
      THEN b.min.extra ELSE 0

\* in the coming month every active debt's minimum payment, with the extra
\* funds redirected to it, is at least its interest of that month
CoveredAtLeast ==
  (pc = "loop" /\ remaining_debts # <<>>) =>
    \A o \in Range(remaining_debts) :
      heap[o].payment + Redirected(o) >= MonthlyInterest(heap[o])

\* the same, with the payment strictly greater than the interest
CoveredStrictly ==
  (pc = "loop" /\ remaining_debts # <<>>) =>
    \A o \in Range(remaining_debts) :
      heap[o].payment + Redirected(o) > MonthlyInterest(heap[o])

\* the call has returned and every working balance is 0
AllClosed ==
  /\ pc = "returned"
  /\ remaining_debts = <<>>
  /\ \A o \in Range(sorted_debts) : heap[o].balance = 0

\* the coming month would leave every working record and the active list as
\* they are: the loop, whose body reads nothing else, then repeats this
\* month for ever
Stalled ==
  /\ pc = "loop"
  /\ remaining_debts # <<>>
  /\ ComingMonth.out.heap = heap
  /\ ComingMonth.out.rem = remaining_debts

\* the run has reached the last month the model follows while its balances
\* were still changing: the model, not the program, stops here
BeyondHorizon == month = MaxMonth /\ ~Stalled

\* C3: for non-negative inputs, if in every month every active debt's
\* minimum payment with the extra funds redirected to it is at least its
\* interest of that month, the simulation ends with every debt closed
\* (runs the model does not follow to their end are not held against it).
C3_TerminatesWhenCovered ==
  (NonNegativeInput /\ []CoveredAtLeast) => <>(AllClosed \/ BeyondHorizon)

\* C3 as amended: the same when the payment with the redirected funds is
\* strictly greater than the interest in every month.
C3_TerminatesWhenStrictlyCovered ==
  (NonNegativeInput /\ []CoveredStrictly) => <>AllClosed

\* every input debt's minimum payment is positive and exceeds its interest
\* (payment > balance * rate / 12)
PaymentsExceedInterest ==
  \A d \in InputDebts :
    d.payment > 0 /\ d.payment * MonthsPerYear > d.balance * d.rate

\* an interest-bearing debt whose payment exceeds its interest has been
\* paid off in more than one month
C3_Witness ==
  /\ NonNegativeInput
  /\ PaymentsExceedInterest
  /\ AllClosed
  /\ month >= 2
  /\ total_interest_paid > 0

\* C4: when every debt's minimum payment is positive and exceeds its own
\* monthly interest, and the extra payment is not negative, the number of
\* active debts never increases from a month to the next and the loop ends
\* with no active debt, under either policy.
C4_ActiveCountDecreases ==
  /\ [][(PaymentsExceedInterest /\ extra_payment >= 0 /\ pc = "loop")
         => Len(remaining_debts') <= Len(remaining_debts)]_vars
  /\ (PaymentsExceedInterest /\ extra_payment >= 0)
       => <>(pc = "returned" /\ remaining_debts = <<>>)

\* two debts closed in different months, the second after the loop went on
C4_Witness ==
  /\ PaymentsExceedInterest
  /\ extra_payment >= 0
  /\ pc = "returned"
  /\ month >= 2
  /\ Len(sorted_debts) = 2
  /\ DOMAIN payoff_schedule[month] # DOMAIN payoff_schedule[1]

\* C5: a call leaves the caller's list and every field of every input debt
\* as it was, in every step of the simulation.
C5_InputNotMutated ==
  [][/\ debts' = debts
     /\ \A o \in Range(debts) : heap'[o] = heap[o]]_vars

\* a two-month simulation has returned and has changed a working balance
C5_Witness ==
  /\ pc = "returned"
  /\ month >= 2
  /\ \E o \in Range(debts) : heap[CopyOf(o)].balance # heap[o].balance

\* C6: every record of the returned sorted_debts carries the balance and the
\* rate its debt had in the input (stated for the valid, non-negative inputs).
C6_SortedDebtsInitial ==
  (NonNegativeInput /\ pc = "returned") =>
    \A i \in 1 .. Len(sorted_debts) :
      \E o \in Range(debts) :
        /\ sorted_debts[i] = CopyOf(o)
        /\ result[1].sorted_debts[i].balance = heap[o].balance
        /\ result[1].sorted_debts[i].rate = heap[o].rate

\* the names of the debts of a list
NamesOf(h, ids) == {h[o].name : o \in Range(ids)}

C8_BalancesNonNegative ==
  NonNegativeInput =>
    /\ \A o \in Range(sorted_debts) : heap[o].balance >= 0
    /\ \A m \in 1 .. Len(payoff_schedule) :
         \A n \in DOMAIN payoff_schedule[m] : payoff_schedule[m][n] >= 0

\* the extra payment has reduced a debt without closing it, and a minimum
\* payment has closed another
C8_Witness ==
  /\ NonNegativeInput
  /\ month >= 1
  /\ pool > 0
  /\ paid_this_month # <<>>
  /\ remaining_debts # <<>>
  /\ heap[remaining_debts[1]].balance > 0

\* snapshots only lose names from one month to the next
SnapshotsShrink ==
  \A i \in 1 .. Len(payoff_schedule) : \A j \in i .. Len(payoff_schedule) :
    DOMAIN payoff_schedule[j] \subseteq DOMAIN payoff_schedule[i]

\* C9: a debt removed from the active list does not come back, and a name
\* absent from one snapshot is absent from every later one.
C9_NoReappearance ==
  [][/\ pc = "loop" => Range(remaining_debts') \subseteq Range(remaining_debts)
     /\ SnapshotsShrink']_vars

\* a debt left the snapshots and the simulation went on for two more months
C9_Witness ==
  /\ month >= 3
  /\ DOMAIN payoff_schedule[2] # DOMAIN payoff_schedule[1]
  /\ DOMAIN payoff_schedule[3] # {}

\* C10: for the empty list, whatever the extra payment and the policy, the
\* plan is 0 months, 0 interest, no debts and no snapshots, and the loop is
\* never entered.
C10_EmptyInput ==
  debts = <<>> =>
    /\ pc \in {"start", "returned"}
    /\ month = 0
    /\ pc = "returned" =>
         result = <<[months_to_payoff |-> 0, total_interest_paid |-> 0,
                     sorted_debts |-> <<>>, payoff_schedule |-> <<>>]>>

\* the call on the empty list has returned, under the avalanche policy and
\* with a positive extra payment
C10_Witness ==
  /\ debts = <<>>
  /\ pc = "returned"
  /\ sort_key = "neg_rate"
  /\ extra_payment > 0

\* the sum of f over the set S of debt objects
RECURSIVE SumOver(_, _)
SumOver(S, f) ==
  IF S = {} THEN 0
  ELSE LET o == CHOOSE x \in S : TRUE
       IN  f[o] + SumOver(S \ {o}, f)

\* balance * rate / 12 of every debt object, on the balances of this state
InterestDue ==
  [o \in DOMAIN heap |-> (heap[o].balance * heap[o].rate) \div MonthsPerYear]

\* C11: total_interest_paid starts at 0 and each simulated month adds to it,
\* for every debt active at the start of the month and for no other, that
\* debt's balance before the month's payments times rate / 12; the returned
\* total is this sum.
C11_InterestConservation ==
  [][/\ (pc' = "loop" /\ month' = 0) => total_interest_paid' = 0
     /\ month' = month + 1 =>
          total_interest_paid' =
            total_interest_paid + SumOver(Range(remaining_debts), InterestDue)
     /\ (pc' = "returned" /\ debts # <<>>) =>
          result'[1].total_interest_paid = total_interest_paid]_vars

\* one debt has closed, the other has accrued interest in a later month, and
\* the plan has been returned
C11_Witness ==
  /\ pc = "returned"
  /\ month >= 3
  /\ Len(sorted_debts) = 2
  /\ DOMAIN payoff_schedule[2] # DOMAIN payoff_schedule[1]
  /\ \A o \in Range(sorted_debts) : heap[debts[o - Len(debts)]].rate > 0
  /\ total_interest_paid > 0

\* the position of the debt object o in the list ids
PositionIn(ids, o) == CHOOSE i \in 1 .. Len(ids) : ids[i] = o

\* the balance of the debt object o after this state's interest and its own
\* minimum payment of the coming month
AfterMinimum ==
  [o \in DOMAIN heap |->
     LET inflated == heap[o].balance + InterestDue[o]
     IN  IF inflated <= heap[o].payment THEN 0
         ELSE inflated - heap[o].payment]

\* the debt objects of this state's active list that their own minimum
\* payment closes in the coming month
ClosedByMinimum ==
  {o \in Range(remaining_debts) :
     heap[o].balance + InterestDue[o] <= heap[o].payment}

\* input debts h, l of equal balance, h with the higher rate
EqualBalanceHigherRate(h, l) ==
  /\ heap[h].balance = heap[l].balance
  /\ heap[h].rate > heap[l].rate

\* C13: under Avalanche with a positive extra payment, of two debts of equal
\* initial balance the one with the higher rate closes first: the other is
\* never closed while it is still active (stated for the valid inputs).
C13_HigherRateClosesFirst ==
  (NonNegativeInput /\ sort_key = "neg_rate" /\ extra_payment > 0) =>
    \A h, l \in Range(debts) :
      (EqualBalanceHigherRate(h, l)
         /\ CopyOf(l) \notin Range(remaining_debts))
        => CopyOf(h) \notin Range(remaining_debts)

\* C13 as amended: under Avalanche with a positive extra payment, of two
\* debts of equal initial balance the one with the higher rate comes first
\* in the priority order, and in a month in which both are still active
\* after the minimum payments the other receives nothing of the pool.
C13_HigherRateHasPriority ==
  [][(sort_key' = "neg_rate" /\ extra_payment > 0) =>
       \A h, l \in Range(debts) :
         EqualBalanceHigherRate(h, l) =>
           /\ PositionIn(sorted_debts', CopyOf(h))
                < PositionIn(sorted_debts', CopyOf(l))
           /\ (/\ month' = month + 1
               /\ {CopyOf(h), CopyOf(l)} \subseteq
                    Range(remaining_debts) \ ClosedByMinimum)
                => heap'[CopyOf(l)].balance = AfterMinimum[CopyOf(l)]]_vars

\* the higher-rate debt was listed second in the input, has been paid off by
\* the extra payment, and the other debt of equal initial balance is active
C13_Witness ==
  /\ sort_key = "neg_rate"
  /\ extra_payment > 0
  /\ Len(debts) = 2
  /\ EqualBalanceHigherRate(2, 1)
  /\ heap[1].balance > 0
  /\ month >= 2
  /\ remaining_debts = <<CopyOf(1)>>
  /\ paid_this_month = <<>>

\* every rate is 0, there is no extra payment, and every balance is a
\* positive exact multiple of its minimum payment
InterestFreeExactMultiples ==
  /\ extra_payment = 0
  /\ \A d \in InputDebts :
       /\ d.rate = 0
       /\ d.payment > 0
       /\ d.balance > 0
       /\ d.balance % d.payment = 0

\* balance / minimum_payment of the input debt object o
Quotient(o) == heap[o].balance \div heap[o].payment

\* C14: with every rate 0, no extra payment and every balance a positive
\* exact multiple of its minimum payment, each debt is in the snapshots of
\* the months up to balance / minimum_payment and closes, with balance 0, in
\* that month; months_to_payoff is the largest quotient and
\* total_interest_paid is 0, under either policy.
C14_ExactMultiples ==
  (InterestFreeExactMultiples /\ pc = "returned" /\ debts # <<>>) =>
    /\ \A o \in Range(debts) :
         /\ Quotient(o) <= Len(result[1].payoff_schedule)
         /\ \A m \in 1 .. Len(result[1].payoff_schedule) :
              heap[o].name \in DOMAIN result[1].payoff_schedule[m]
                <=> m <= Quotient(o)
         /\ result[1].payoff_schedule[Quotient(o)][heap[o].name] = 0
         /\ \A m \in 1 .. (Quotient(o) - 1) :
              result[1].payoff_schedule[m][heap[o].name] > 0
    /\ \E o \in Range(debts) : result[1].months_to_payoff = Quotient(o)
    /\ \A o \in Range(debts) : result[1].months_to_payoff >= Quotient(o)
    /\ result[1].total_interest_paid = 0

\* two debts with different quotients, the first of the order closing first
C14_Witness ==
  /\ InterestFreeExactMultiples
  /\ pc = "returned"
  /\ Len(debts) = 2
  /\ Quotient(1) = 1
  /\ Quotient(2) = 2
  /\ sort_key = "balance"

\* lines 44-98 run to the end from the loop state (h, rem, tip, m), for the
\* months the model follows: the total interest of the returned plan
RECURSIVE RunFrom(_, _, _, _)
RunFrom(h, rem, tip, m) ==
  IF rem = <<>> THEN [returned |-> TRUE, total_interest_paid |-> tip]
  ELSE IF m >= MaxMonth THEN [returned |-> FALSE, total_interest_paid |-> tip]
  ELSE LET b == MonthBody(h, rem, tip, extra_payment)
       IN  RunFrom(b.out.heap, b.out.rem, b.min.tip, m + 1)

\* lines 32-98 on the caller's list under the sort key k
PlanUnder(k) ==
  LET c == DeepCopy(heap, debts)
  IN  RunFrom(c.heap, Sorted(c.heap, k, c.list), 0, 0)

\* C15: for the same debts and the same extra payment, the Avalanche plan's
\* total_interest_paid is not greater than the Snowball plan's, when both
\* simulations return (stated for the valid inputs).
C15_AvalancheNoMoreInterest ==
  (NonNegativeInput /\ pc = "returned" /\ sort_key = "neg_rate"
     /\ debts # <<>> /\ PlanUnder("balance").returned) =>
    result[1].total_interest_paid <= PlanUnder("balance").total_interest_paid

\* the debt objects of the priority order that are still active after the
\* coming month's minimum payments, in that order
ActiveAfterMinimum ==
  SelectSeq(sorted_debts,
            LAMBDA o : o \in Range(remaining_debts) \ ClosedByMinimum)

\* C16: in a month the pool goes to one debt only, the first of the priority
\* order still active after the minimum payments: it is reduced by the pool,
\* or closed when the pool is at least its balance, what is left of the pool
\* being kept from every other debt, whose balance is as its own minimum
\* payment left it.
C16_SingleTarget ==
  [][month' = month + 1 =>
       /\ \A o \in Range(remaining_debts) :
            (ActiveAfterMinimum = <<>> \/ o # ActiveAfterMinimum[1])
              => heap'[o].balance = AfterMinimum[o]
       /\ (ActiveAfterMinimum # <<>> /\ pool' > 0) =>
            LET first_debt == ActiveAfterMinimum[1]
            IN  IF AfterMinimum[first_debt] <= pool'
                THEN /\ heap'[first_debt].balance = 0
                     /\ first_debt \notin Range(remaining_debts')
                     /\ extra_available' = pool' - AfterMinimum[first_debt]
                ELSE /\ heap'[first_debt].balance =
                          AfterMinimum[first_debt] - pool'
                     /\ first_debt \in Range(remaining_debts')]_vars

\* the pool closed the first debt with something left over, and the other
\* debt is still active with a balance
C16_Witness ==
  /\ month >= 1
  /\ pool > 0
  /\ extra_available > 0
  /\ extra_available < pool
  /\ Len(sorted_debts) = 2
  /\ paid_this_month = <<>>
  /\ remaining_debts = <<sorted_debts[2]>>
  /\ heap[sorted_debts[2]].balance > 0

\* the caller's dictionary that the working copy o was made from
InputOf(o) == heap[o - Len(debts)]

\* working copy a comes before working copy b in the order of the initial
\* values: ascending balance (Snowball), descending rate (Avalanche), the
\* caller's order between equals
InitiallyBefore(a, b) ==
  LET ka == IF sort_key = "balance" THEN InputOf(a).balance
            ELSE 0 - InputOf(a).rate
      kb == IF sort_key = "balance" THEN InputOf(b).balance
            ELSE 0 - InputOf(b).rate
  IN  ka < kb \/ (ka = kb /\ a < b)

\* the sequence s lists working copies in the order of the initial values
InInitialOrder(s) ==
  \A i, j \in 1 .. Len(s) : i < j => InitiallyBefore(s[i], s[j])

\* C17: the priority order is that of the debts' initial values (ascending
\* balance for Snowball, descending rate for Avalanche, ties in the caller's
\* order), it is fixed once computed, the active list keeps it, and in every
\* month the pool goes to the earliest debt of it that is still active after
\* the minimum payments, whatever the current balances are.
C17_PriorityFixed ==
  [][/\ pc' # "start" =>
          /\ Len(sorted_debts') = Len(debts')
          /\ Range(sorted_debts') = {CopyOf(o)' : o \in Range(debts')}
          /\ InInitialOrder(sorted_debts)'
          /\ InInitialOrder(remaining_debts)'
          /\ Range(remaining_debts') \subseteq Range(sorted_debts')
     /\ pc # "start" => sorted_debts' = sorted_debts
     /\ month' = month + 1 =>
          LET active == Range(remaining_debts) \ ClosedByMinimum
          IN  (active # {} /\ pool' > 0) =>
                \E first_debt \in active :
                  /\ \A o \in active \ {first_debt} :
                       /\ InitiallyBefore(first_debt, o)
                       /\ heap'[o].balance = AfterMinimum[o]
                  /\ heap'[first_debt].balance =
                       IF AfterMinimum[first_debt] <= pool' THEN 0
                       ELSE AfterMinimum[first_debt] - pool']_vars

\* a Snowball month in which the pool went to the first debt of the initial
\* order although the other active debt had the smaller balance after the
\* minimum payments
C17_Witness ==
  /\ month >= 1
  /\ sort_key = "balance"
  /\ pool > 0
  /\ paid_this_month = <<>>
  /\ Len(remaining_debts) = 2
  /\ remaining_debts = sorted_debts
  /\ heap[remaining_debts[1]].balance + pool
       > heap[remaining_debts[2]].balance
  /\ heap[remaining_debts[2]].balance > 0

\* what the minimum payment of the active debt o leaves over in the coming
\* month once its balance with interest is paid
Excess ==
  [o \in DOMAIN heap |->
     heap[o].payment - (heap[o].balance + InterestDue[o])]

\* C18: a debt whose minimum payment covers its balance with interest closes
\* with balance 0 in that month, and the pool of the month is exactly the
\* extra payment plus what those payments leave over, wherever the closed
\* debts stand in the priority order.
C18_PoolIsExtraPlusExcess ==
  [][month' = month + 1 =>
       /\ pool' = extra_payment + SumOver(ClosedByMinimum, Excess)
       /\ Range(paid_this_month') = ClosedByMinimum
       /\ \A o \in ClosedByMinimum :
            /\ heap'[o].balance = 0
            /\ o \notin Range(remaining_debts')
            /\ month_balances'[heap[o].name] = 0]_vars

\* the second debt of the priority order was closed by its minimum payment
\* with something left over, which went into the pool of the first debt
C18_Witness ==
  /\ month >= 1
  /\ Len(sorted_debts) = 2
  /\ paid_this_month = <<sorted_debts[2]>>
  /\ remaining_debts = <<sorted_debts[1]>>
  /\ pool > extra_payment
  /\ extra_payment >= 0
  /\ heap[sorted_debts[1]].balance > 0

\* the minimum payments of the working copies
PaymentOf == [o \in DOMAIN heap |-> heap[o].payment]

\* the debts that closed in the months before the coming one
ClosedEarlier == Range(sorted_debts) \ Range(remaining_debts)

\* C19: in every month after a debt has closed, what is redirected to the
\* highest-priority debt still active after the minimum payments includes
\* the minimum payments of all the debts closed in earlier months.
C19_ClosedPaymentsRollOver ==
  [][(/\ NonNegativeInput
      /\ month' = month + 1
      /\ Range(remaining_debts) \ ClosedByMinimum # {})
       => pool' >= extra_payment + SumOver(ClosedEarlier, PaymentOf)]_vars

\* C20: one snapshot is appended per simulated month, so the schedule always
\* has as many snapshots as months were simulated; a returned plan's
\* months_to_payoff is that number, and it is at least 1 for a non-empty
\* list, also when every input balance is 0.
C20_MonthsEqualSnapshots ==
  [][/\ Len(payoff_schedule') = month'
     /\ month' = month + 1 =>
          payoff_schedule' = Append(payoff_schedule, month_balances')
     /\ month' # month + 1 => payoff_schedule' = payoff_schedule
     /\ result' # <<>> =>
          /\ result'[1].months_to_payoff = Len(result'[1].payoff_schedule)
          /\ result'[1].months_to_payoff = month'
          /\ debts # <<>> => result'[1].months_to_payoff >= 1]_vars

\* the plan returned for two debts of balance 0: one month, one snapshot
C20_Witness ==
  /\ pc = "returned"
  /\ Len(debts) = 2
  /\ result # <<>>
  /\ \A d \in InputDebts : d.balance = 0
  /\ result[1].months_to_payoff = 1
  /\ Len(result[1].payoff_schedule) = 1

\* C21: the redirect step never increases a balance: after a month no active
\* debt owes more than its minimum payment left, and when the month's pool
\* is zero or negative the redirect is skipped: every balance, the active
\* list, the snapshot and the pool are as the minimum payments left them.
C21_RedirectNeverIncreases ==
  [][month' = month + 1 =>
       /\ \A o \in Range(remaining_debts) :
            heap'[o].balance <= AfterMinimum[o]
       /\ \A o \in DOMAIN heap \ Range(remaining_debts) :
            heap'[o] = heap[o]
       /\ pool' <= 0 =>
            /\ \A o \in Range(remaining_debts) :
                 /\ heap'[o].balance = AfterMinimum[o]
                 /\ month_balances'[heap[o].name] = AfterMinimum[o]
            /\ remaining_debts' =
                 SelectSeq(remaining_debts,
                           LAMBDA o : o \notin ClosedByMinimum)
            /\ extra_available' = pool']_vars

\* a month with a negative extra payment in which a minimum payment left
\* something over, the pool was still not positive, and a debt stays active
\* with the balance its minimum payment left
C21_Witness ==
  /\ month >= 1
  /\ extra_payment < 0
  /\ pool > extra_payment
  /\ pool <= 0
  /\ extra_available = pool
  /\ remaining_debts # <<>>
  /\ heap[remaining_debts[1]].balance > 0

====
